---------------------------- MODULE Spec2Model ----------------------------
(***************************************************************************)
(* Decline curve analysis of well production data                          *)
(* (Scripts/03_decline_curve_analysis.py).                                 *)
(*                                                                         *)
(* analyze_production() is one sequential pipeline: load the production    *)
(* table, aggregate it to months, cut the fitting window, fit the          *)
(* hyperbolic decline curve, score it, integrate the future reserves,      *)
(* build the forecast, plot, and write three result tables.                *)
(*                                                                         *)
(* Number representation.  The script computes in IEEE doubles; the model  *)
(* computes in fixed point, rounding down:                                 *)
(*   volumes and rates   whole barrels                                     *)
(*   Di                  hundredths      (Di = 0.10 is 10)                 *)
(*   b                   halves          (b = 0, 0.5, 1, 2 are 0, 1, 2, 4) *)
(*   time given to the decline function: hundredths of a month             *)
(*   r_squared           hundredths                                        *)
(* The values a double takes outside the reals (inf, -inf, nan) are kept   *)
(* as the "kind" of a number, and a Python exception as a "fault".         *)
(* Python scalars raise ZeroDivisionError on a division by zero; numpy     *)
(* float64 scalars and arrays return inf or nan with a RuntimeWarning.     *)
(* Which of the two a call computes with is decided by the type of its     *)
(* arguments: the parameter "num" of the operators below ("py" or "np").   *)
(* The NumPy installed is taken to provide np.trapz and np.trapezoid both. *)
(***************************************************************************)
EXTENDS Integers, Sequences, FiniteSets, TLC

\* ------------------------------------------------------------- bounds ---

\* Longest monthly history the input table holds.
MaxMonths == 91

\* Most daily records one calendar month of the input table holds.
MaxPerMonth == 2

\* Histories of 0 .. MaxShort months are explored beside the long ones.
MaxShort == 2

\* ---------------------------------------------------- program constants ---

\* monthly['months_on_production'] >= 70
fit_from == 70

\* recent_data['months_on_production'] - 70
fit_rebase == 70

Di_guess == 10

b_guess == 0

\* np.arange(20, 210)
future_from == 20

future_to == 210

forecast_months == 120

\* np.arange(20, 20 + forecast_months)
forecast_from == 20

\* np.arange(90, 90 + forecast_months)
forecast_index_from == 90

\* np.linspace(0, t_max, 1000)
linspace_num == 1000

\* def calculate_eur(qi, Di, b, economic_limit=10)
economic_limit_default == 10

\* ------------------------------------------------------------ numbers ---

Min2(a, b) == IF a <= b THEN a ELSE b

Max2(a, b) == IF a >= b THEN a ELSE b

\* The sum of f[lo] .. f[hi], split in halves to keep the evaluation shallow.
RECURSIVE SumRange(_, _, _)
SumRange(f, lo, hi) ==
    IF lo > hi THEN 0
    ELSE IF lo = hi THEN f[lo]
    ELSE LET mid == (lo + hi) \div 2
         IN  SumRange(f, lo, mid) + SumRange(f, mid + 1, hi)

SeqSum(s) == SumRange(s, 1, Len(s))

RECURSIVE SqrtSearch(_, _, _)
SqrtSearch(n, lo, hi) ==
    IF lo >= hi THEN lo
    ELSE LET mid == (lo + hi + 1) \div 2
         IN  IF mid * mid <= n THEN SqrtSearch(n, mid, hi)
             ELSE SqrtSearch(n, lo, mid - 1)

\* floor(sqrt(n)), n >= 0
ISqrt(n) == SqrtSearch(n, 0, Min2(n, 46340))

\* A finite number, and the non-finite values of a double.
Fin(v) == [kind |-> "finite", v |-> v]

NaN == [kind |-> "nan", v |-> 0]

NegInf == [kind |-> "-inf", v |-> 0]

\* ----------------------------------------------------- decline model ---

\* The result of one evaluation: the exception it raised ("none": it
\* returned), the numpy warning it emitted, and the value it returned.
Returned(v, warn) == [fault |-> "none", warn |-> warn, kind |-> "finite", v |-> v]

ReturnedNaN(warn) == [fault |-> "none", warn |-> warn, kind |-> "nan", v |-> 0]

Raised(e) == [fault |-> e, warn |-> "none", kind |-> "none", v |-> 0]

\* (1 + b * Di * t), times 20000: b in halves, Di and t in hundredths.
decline_base(tm, Di, b) == 20000 + b * Di * tm

\* qi / base ** (1/b) for b > 0, base >= 1 given times 20000.
\* 1/b is 2 (b = 0.5), 1 (b = 1) or 1/2 (b = 2).
decline_power(qi, base, b) ==
    CASE b = 1 -> (((qi * 20000) \div base) * 20000) \div base
      [] b = 2 -> (qi * 20000) \div base
      [] b = 4 -> (qi * ISqrt(((20000 * 10000) \div base) * 10000)) \div 10000

\* return qi / ((1 + b * Di * t) ** (1/b))
\* At b = 0 the exponent 1/b is evaluated all the same: a Python float
\* raises ZeroDivisionError; a numpy float64 gives inf with a warning, and
\* then base ** inf is 1 for base = 1 (which b = 0 makes it), inf above 1.
hyperbolic_decline(tm, qi, Di, b, num) ==
    LET base == decline_base(tm, Di, b)
    IN  IF b = 0
        THEN IF num = "py" THEN Raised("ZeroDivisionError")
             ELSE IF base = 20000 THEN Returned(qi, "divide by zero")
             ELSE Returned(0, "divide by zero")
        ELSE IF base <= 0 THEN ReturnedNaN("invalid value")
        ELSE Returned(decline_power(qi, base, b), "none")

\* hyperbolic_decline over an array of whole months (an int64 array).
decline_over_months(ts, qi, Di, b, num) ==
    [i \in 1..Len(ts) |-> hyperbolic_decline(100 * ts[i], qi, Di, b, num)]

\* np.arange(lo, hi)
arange(lo, hi) == [i \in 1..Max2(hi - lo, 0) |-> lo + i - 1]

\* np.trapezoid(y, x) over unit steps of x: the sum of (y[i] + y[i+1]) / 2.
trapezoid_unit(y) ==
    SumRange([i \in 1..(Len(y) - 1) |-> y[i] + y[i + 1]], 1, Len(y) - 1) \div 2

\* -------------------------------------------------- reserve estimator ---

\* (qi / economic_limit) ** b, in hundredths.
ratio_power(qi, economic_limit, b) ==
    LET ratio == (qi * 100) \div economic_limit
    IN  CASE b = 0 -> 100
          [] b = 1 -> ISqrt(ratio * 100)
          [] b = 2 -> ratio
          [] b = 4 -> (ratio * ratio) \div 100

\* np.linspace(0, t_max, 1000): point i of 1000, t_max in hundredths.
linspace_point(t_max, i) == (t_max * (i - 1)) \div (linspace_num - 1)

\* np.trapz(production_points, time_points), in barrels.
trapz(ys, xs) ==
    SumRange([i \in 1..(Len(xs) - 1) |->
                 (xs[i + 1] - xs[i]) * (ys[i] + ys[i + 1])],
             1, Len(xs) - 1) \div 200

\* calculate_eur(qi, Di, b, economic_limit)
\*   t_max = ((qi/economic_limit)**b - 1) / (b * Di)
\*   time_points = np.linspace(0, t_max, 1000)
\*   production_points = hyperbolic_decline(time_points, qi, Di, b)
\*   eur = np.trapz(production_points, time_points)
\* With b * Di = 0 the division raises for Python scalars; for numpy
\* scalars t_max is nan (0/0) or inf (x/0), every time point but the first
\* is then nan or inf, b * Di * t is nan, and the integral is nan.
calculate_eur(qi, Di, b, economic_limit, num) ==
    LET numer == ratio_power(qi, economic_limit, b) - 100
        denom == b * Di
    IN  IF denom = 0
        THEN IF num = "py" THEN Raised("ZeroDivisionError")
             ELSE ReturnedNaN(IF numer = 0 THEN "invalid value" ELSE "divide by zero")
        ELSE LET t_max == (numer * 200) \div denom
                 time_points == [i \in 1..linspace_num |-> linspace_point(t_max, i)]
                 production_points ==
                     [i \in 1..linspace_num |->
                         hyperbolic_decline(time_points[i], qi, Di, b, num)]
             IN  Returned(trapz([i \in 1..linspace_num |-> production_points[i].v],
                                time_points), "none")

\* ------------------------------------------------------ calendar dates ---

\* A date is a month (year * 12 + month - 1) and a day of the month.
Date(ym, day) == [ym |-> ym, day |-> day]

\* df['production_date'].dt.to_period('M'): the calendar month of a date.
to_period(d) == d.ym

\* period.dt.to_timestamp(): the first day of the month.
to_timestamp(p) == Date(p, 1)

\* d + pd.DateOffset(months=n), for a day every month has.
add_months(d, n) == Date(d.ym + n, d.day)

\* pd.date_range(start=start, periods=periods, freq='MS'): the first
\* `periods` month starts on or after start.
date_range(start, periods) ==
    LET first == IF start.day = 1 THEN start.ym ELSE start.ym + 1
    IN  [i \in 1..periods |-> Date(first + i - 1, 1)]

\* --------------------------------------------------------- aggregation ---

SetMin(S) == CHOOSE x \in S : \A y \in S : x <= y

RECURSIVE sorted_keys(_)
sorted_keys(S) ==
    IF S = {} THEN <<>>
    ELSE LET m == SetMin(S) IN <<m>> \o sorted_keys(S \ {m})

\* df.groupby('year_month').agg({... 'sum'}).reset_index(): one row per
\* distinct month of the frame, in ascending order of the month, holding the
\* sums of the three volumes over the rows of that month.
groupby_sum(frame) ==
    LET n == Len(frame)
        keys == sorted_keys({to_period(frame[i].production_date) : i \in 1..n})
        total(k, col) ==
            SumRange([i \in 1..n |->
                         IF to_period(frame[i].production_date) = k
                         THEN frame[i][col] ELSE 0], 1, n)
    IN  [g \in 1..Len(keys) |->
            [year_month |-> keys[g],
             oil_volume |-> total(keys[g], "oil_volume"),
             gas_volume |-> total(keys[g], "gas_volume"),
             water_volume |-> total(keys[g], "water_volume")]]

\* Faulty variant: the index is the calendar distance from the first month.
assign_calendar_distance(groups) ==
    [g \in 1..Len(groups) |->
        [year_month |-> to_timestamp(groups[g].year_month),
         oil_volume |-> groups[g].oil_volume,
         gas_volume |-> groups[g].gas_volume,
         water_volume |-> groups[g].water_volume,
         months_on_production |-> groups[g].year_month - groups[1].year_month]]

\* Faulty variant: the index counts from 1, with one padding period when no month
\* was read.
assign_one_based(groups) ==
    IF groups = <<>>
    THEN <<[year_month |-> to_timestamp(0), oil_volume |-> 0, gas_volume |-> 0,
            water_volume |-> 0, months_on_production |-> 0]>>
    ELSE [g \in 1..Len(groups) |->
            [year_month |-> to_timestamp(groups[g].year_month),
             oil_volume |-> groups[g].oil_volume,
             gas_volume |-> groups[g].gas_volume,
             water_volume |-> groups[g].water_volume,
             months_on_production |-> g]]

\* monthly['year_month'] = monthly['year_month'].dt.to_timestamp()
\* monthly['months_on_production'] = range(len(monthly))
assign_months_on_production(groups) ==
    [g \in 1..Len(groups) |->
        [year_month |-> to_timestamp(groups[g].year_month),
         oil_volume |-> groups[g].oil_volume,
         gas_volume |-> groups[g].gas_volume,
         water_volume |-> groups[g].water_volume,
         months_on_production |-> g - 1]]

\* frame[frame['months_on_production'] >= lo]: the rows kept, in order.
RECURSIVE rows_from(_, _)
rows_from(frame, lo) ==
    IF frame = <<>> THEN <<>>
    ELSE IF frame[Len(frame)].months_on_production >= lo
         THEN Append(rows_from(SubSeq(frame, 1, Len(frame) - 1), lo), frame[Len(frame)])
         ELSE rows_from(SubSeq(frame, 1, Len(frame) - 1), lo)

\* recent_data = monthly[monthly['months_on_production'] >= 70].copy()
select_recent(frame) == rows_from(frame, fit_from)

\* t = (recent_data['months_on_production'] - 70).values
rebase_time(recent) == [i \in 1..Len(recent) |-> recent[i].months_on_production - fit_rebase]

\* Faulty variant: the cumulative volume of the fitting window only.
cumulative_oil_window(frame) ==
    SumRange([i \in 1..Len(frame) |->
                 IF frame[i].months_on_production >= fit_from
                 THEN frame[i].oil_volume ELSE 0], 1, Len(frame))

\* monthly['oil_volume'].sum()
cumulative_oil(frame) == SumRange([i \in 1..Len(frame) |-> frame[i].oil_volume], 1, Len(frame))

\* ------------------------------------------------------ goodness of fit ---

\* ss_res = np.sum((q - q_pred) ** 2)
sum_sq_residuals(qs, q_pred) ==
    SumRange([i \in 1..Len(qs) |-> (qs[i] - q_pred[i]) * (qs[i] - q_pred[i])], 1, Len(qs))

\* ss_tot = np.sum((q - np.mean(q)) ** 2)
sum_sq_total(qs) ==
    LET mean == SeqSum(qs) \div Len(qs)
    IN  SumRange([i \in 1..Len(qs) |-> (qs[i] - mean) * (qs[i] - mean)], 1, Len(qs))

\* r_squared = 1 - (ss_res / ss_tot), a float64 division: 0/0 is nan and
\* x/0 is inf, each with a warning and no exception.  In hundredths.
r_squared_of(res, tot) ==
    IF tot = 0
    THEN IF res = 0 THEN NaN ELSE NegInf
    ELSE Fin(100 - (100 * res) \div tot)

\* ------------------------------------------------------------ forecast ---

\* Faulty variant: the forecast stops at the first month predicted below one barrel.
forecast_frame_truncated(dates, index, predicted) ==
    LET live == {i \in 1..Len(dates) : \A j \in 1..i : predicted[j] >= 1}
    IN  [i \in 1..Cardinality(live) |->
            [forecast_date |-> dates[i],
             months_on_production |-> index[i],
             predicted_oil |-> predicted[i]]]

\* pd.DataFrame({'forecast_date': ..., 'months_on_production': ...,
\*               'predicted_oil': ...}): one row per forecast date.
forecast_frame(dates, index, predicted) ==
    [i \in 1..Len(dates) |->
        [forecast_date |-> dates[i],
         months_on_production |-> index[i],
         predicted_oil |-> predicted[i]]]

\* ------------------------------------------------------------- the run ---

VARIABLES
    pc,                  \* the step analyze_production() is at
    store,               \* the tables of the database
    store_at_start,      \* the tables as the run found them
    df,                  \* the daily records read
    monthly,             \* the aggregated monthly series
    recent_data,         \* the fitting window
    t, q,                \* the fitter's time axis and volumes
    qi_guess,            \* the initial guess of qi
    f0,                  \* the fitter's first evaluation, at the initial guess
    params,              \* <<[qi, Di, b]>> once fitted
    ss_res, ss_tot, r_squared,
    future_reserves, cumulative_to_date, eur, remaining_reserves,
    t_forecast, forecast_df,
    exc,                 \* the exception the try block caught
    error,               \* the exception analyze_production() let out
    call, ret            \* a direct call of calculate_eur and its result

vars ==
    <<pc, store, store_at_start, df, monthly, recent_data, t, q, qi_guess, f0,
      params, ss_res, ss_tot, r_squared, future_reserves, cumulative_to_date,
      eur, remaining_reserves, t_forecast, forecast_df, exc, error, call, ret>>

run_vars ==
    <<pc, store, store_at_start, df, monthly, recent_data, t, q, qi_guess, f0,
      params, ss_res, ss_tot, r_squared, future_reserves, cumulative_to_date,
      eur, remaining_reserves, t_forecast, forecast_df, exc, error>>

NoExc == [type |-> "none", origin |-> "none"]

Unset == [kind |-> "unset", v |-> 0]


NoCall == [fn |-> "none", qi |-> 0, Di |-> 0, b |-> 0, economic_limit |-> 0, num |-> "none"]

NoRet == [fault |-> "none", warn |-> "none", kind |-> "none", v |-> 0]

\* ------------------------------------------------------------ the input ---

\* January 2008, the month the explored histories start in.
first_month == 2008 * 12

\* The month of rank i (from 0) of a history that skips one calendar month
\* before rank gap (gap = 0: no month is skipped).
month_of_rank(i, gap) == first_month + i + (IF gap > 0 /\ i >= gap THEN 1 ELSE 0)

\* The daily oil volume in the month of rank i.
daily_oil(i, profile) == IF profile = "constant" THEN 50 ELSE 200 - 2 * i

\* The production table, ORDER BY production_date: months of `per` daily
\* records each.
production_rows(months, per, gap, profile) ==
    [r \in 1..(months * per) |->
        LET i == (r - 1) \div per
            j == (r - 1) % per
        IN  [production_date |-> Date(month_of_rank(i, gap), 1 + 9 * j),
             oil_volume |-> daily_oil(i, profile),
             gas_volume |-> 3 * daily_oil(i, profile),
             water_volume |-> 1]]

\* Histories explored: the short ones, those ending around the first fitted
\* month, and the longest ones.
Lengths ==
    (0..MaxShort) \cup ((fit_from - 1)..(fit_from + 1)) \cup ((MaxMonths - 2)..MaxMonths)

Gaps == {0, 2}

Profiles == {"constant", "declining"}

\* Result tables a previous run left behind.
stale_parameters ==
    <<[well_id |-> "WELL_001", qi |-> 0, di |-> 0, b_factor |-> 0,
       r_squared |-> Fin(0), eur |-> 0, cumulative_production |-> 0,
       remaining_reserves |-> 0, analysis_date |-> "earlier"]>>

stale_forecast ==
    <<[forecast_date |-> Date(first_month, 1), months_on_production |-> 0,
       predicted_oil |-> 0]>>

InitRun(rows, stale) ==
    /\ pc = "load"
    /\ store = [production |-> rows,
                decline_parameters |-> IF stale THEN stale_parameters ELSE <<>>,
                production_forecast |-> IF stale THEN stale_forecast ELSE <<>>,
                monthly_production |-> <<>>]
    /\ store_at_start = store
    /\ df = <<>>
    /\ monthly = <<>>
    /\ recent_data = <<>>
    /\ t = <<>>
    /\ q = <<>>
    /\ qi_guess = 0
    /\ f0 = <<>>
    /\ params = <<>>
    /\ ss_res = 0
    /\ ss_tot = 0
    /\ r_squared = Unset
    /\ future_reserves = 0
    /\ cumulative_to_date = 0
    /\ eur = 0
    /\ remaining_reserves = 0
    /\ t_forecast = <<>>
    /\ forecast_df = <<>>
    /\ exc = NoExc
    /\ error = NoExc

Init ==
    /\ \E months \in Lengths, per \in 1..MaxPerMonth, gap \in Gaps,
          profile \in Profiles, stale \in BOOLEAN :
          InitRun(production_rows(months, per, gap, profile), stale)
    /\ call = NoCall
    /\ ret = NoRet

\* ------------------------------------------------------------ the steps ---

\* df = pd.read_sql(query, engine); pd.to_datetime(df['production_date'])
Load ==
    /\ pc = "load"
    /\ df' = store.production
    /\ pc' = "aggregate"
    /\ UNCHANGED <<store, store_at_start, monthly, recent_data, t, q, qi_guess, f0,
                   params, ss_res, ss_tot, r_squared, future_reserves,
                   cumulative_to_date, eur, remaining_reserves, t_forecast,
                   forecast_df, exc, error, call, ret>>

\* The database cannot be reached: read_sql raises, outside the try block.
LoadFails ==
    /\ pc = "load"
    /\ error' = [type |-> "OperationalError", origin |-> "read_sql"]
    /\ pc' = "raised"
    /\ UNCHANGED <<store, store_at_start, df, monthly, recent_data, t, q, qi_guess,
                   f0, params, ss_res, ss_tot, r_squared, future_reserves,
                   cumulative_to_date, eur, remaining_reserves, t_forecast,
                   forecast_df, exc, call, ret>>

\* 3. Aggregate to monthly production
Aggregate ==
    /\ pc = "aggregate"
    /\ monthly' = assign_months_on_production(groupby_sum(df))
    /\ pc' = "window"
    /\ UNCHANGED <<store, store_at_start, df, recent_data, t, q, qi_guess, f0,
                   params, ss_res, ss_tot, r_squared, future_reserves,
                   cumulative_to_date, eur, remaining_reserves, t_forecast,
                   forecast_df, exc, error, call, ret>>

\* 4. The fitting window and the initial guess.
Window ==
    /\ pc = "window"
    /\ select_recent(monthly) /= <<>>
    /\ recent_data' = select_recent(monthly)
    /\ t' = rebase_time(recent_data')
    /\ q' = [i \in 1..Len(recent_data') |-> recent_data'[i].oil_volume]
    /\ qi_guess' = recent_data'[1].oil_volume
    /\ pc' = "fit"
    /\ UNCHANGED <<store, store_at_start, df, monthly, f0, params, ss_res, ss_tot,
                   r_squared, future_reserves, cumulative_to_date, eur,
                   remaining_reserves, t_forecast, forecast_df, exc, error,
                   call, ret>>

\* recent_data['oil_volume'].iloc[0] of an empty window raises IndexError,
\* before the try block is entered.
WindowEmpty ==
    /\ pc = "window"
    /\ select_recent(monthly) = <<>>
    /\ recent_data' = <<>>
    /\ t' = <<>>
    /\ q' = <<>>
    /\ error' = [type |-> "IndexError", origin |-> "iloc"]
    /\ pc' = "raised"
    /\ UNCHANGED <<store, store_at_start, df, monthly, qi_guess, f0, params, ss_res,
                   ss_tot, r_squared, future_reserves, cumulative_to_date, eur,
                   remaining_reserves, t_forecast, forecast_df, exc, call, ret>>

\* The parameters curve_fit may return: within bounds=([0,0,0],[inf,1,2]).
FitQi == {qi_guess}

FitDi == {0, Di_guess, 100}

FitB == {0, 1, 2, 4}

\* curve_fit's first evaluation of the model: func(xdata, *p0), p0 a
\* float64 array.
first_evaluation == decline_over_months(t, qi_guess, Di_guess, b_guess, "np")

\* curve_fit(hyperbolic_decline, t, q, p0=..., bounds=..., maxfev=10000)
\* returns some parameters within the bounds.
FitReturns ==
    /\ pc = "fit"
    /\ f0' = first_evaluation
    /\ \E qi \in FitQi, Di \in FitDi, b \in FitB :
          params' = <<[qi |-> qi, Di |-> Di, b |-> b]>>
    /\ pc' = "score"
    /\ UNCHANGED <<store, store_at_start, df, monthly, recent_data, t, q, qi_guess,
                   ss_res, ss_tot, r_squared, future_reserves, cumulative_to_date,
                   eur, remaining_reserves, t_forecast, forecast_df, exc, error,
                   call, ret>>

\* curve_fit raises: RuntimeError when maxfev evaluations did not converge,
\* ValueError when the optimizer rejects the problem.
FitRaises ==
    /\ pc = "fit"
    /\ f0' = first_evaluation
    /\ \E e \in {"RuntimeError", "ValueError"} :
          exc' = [type |-> e, origin |-> "curve_fit"]
    /\ pc' = "except"
    /\ UNCHANGED <<store, store_at_start, df, monthly, recent_data, t, q, qi_guess,
                   params, ss_res, ss_tot, r_squared, future_reserves,
                   cumulative_to_date, eur, remaining_reserves, t_forecast,
                   forecast_df, error, call, ret>>

\* Calculate R^2 (goodness of fit)
Score ==
    /\ pc = "score"
    /\ LET p == params[1]
           fitted == decline_over_months(t, p.qi, p.Di, p.b, "np")
           q_pred == [i \in 1..Len(t) |-> fitted[i].v]
       IN  /\ ss_res' = sum_sq_residuals(q, q_pred)
           /\ ss_tot' = sum_sq_total(q)
           /\ r_squared' = r_squared_of(ss_res', ss_tot')
    /\ pc' = "reserves"
    /\ UNCHANGED <<store, store_at_start, df, monthly, recent_data, t, q, qi_guess,
                   f0, params, future_reserves, cumulative_to_date, eur,
                   remaining_reserves, t_forecast, forecast_df, exc, error,
                   call, ret>>

\* 5. Calculate EUR (future production + historical)
Reserves ==
    /\ pc = "reserves"
    /\ LET p == params[1]
           time_future == arange(future_from, future_to)
           fitted == decline_over_months(time_future, p.qi, p.Di, p.b, "np")
           production_future == [i \in 1..Len(time_future) |-> fitted[i].v]
       IN  future_reserves' = trapezoid_unit(production_future)
    /\ cumulative_to_date' = cumulative_oil(monthly)
    /\ eur' = cumulative_to_date' + future_reserves'
    /\ remaining_reserves' = future_reserves'
    /\ pc' = "forecast"
    /\ UNCHANGED <<store, store_at_start, df, monthly, recent_data, t, q, qi_guess,
                   f0, params, ss_res, ss_tot, r_squared, t_forecast, forecast_df,
                   exc, error, call, ret>>

\* monthly['year_month'].max()
last_date_of(frame) ==
    Date(CHOOSE m \in {frame[i].year_month.ym : i \in 1..Len(frame)} :
             \A i \in 1..Len(frame) : frame[i].year_month.ym <= m, 1)

\* 6. Generate forecast
Forecast ==
    /\ pc = "forecast"
    /\ t_forecast' = arange(forecast_from, forecast_from + forecast_months)
    /\ LET p == params[1]
           fitted == decline_over_months(t_forecast', p.qi, p.Di, p.b, "np")
           q_forecast == [i \in 1..Len(t_forecast') |-> fitted[i].v]
           last_date == last_date_of(monthly)
           forecast_dates == date_range(add_months(last_date, 1), forecast_months)
       IN  forecast_df' =
               forecast_frame(forecast_dates,
                              arange(forecast_index_from,
                                     forecast_index_from + forecast_months),
                              q_forecast)
    /\ pc' = "plot"
    /\ UNCHANGED <<store, store_at_start, df, monthly, recent_data, t, q, qi_guess,
                   f0, params, ss_res, ss_tot, r_squared, future_reserves,
                   cumulative_to_date, eur, remaining_reserves, exc, error,
                   call, ret>>

\* 7. plt.savefig(plot_path) wrote the chart.
Plot ==
    /\ pc = "plot"
    /\ pc' = "save_parameters"
    /\ UNCHANGED <<store, store_at_start, df, monthly, recent_data, t, q, qi_guess,
                   f0, params, ss_res, ss_tot, r_squared, future_reserves,
                   cumulative_to_date, eur, remaining_reserves, t_forecast,
                   forecast_df, exc, error, call, ret>>

\* plt.savefig(plot_path) raises when the directory of the fixed plot_path
\* does not exist; the try block catches it.
PlotFails ==
    /\ pc = "plot"
    /\ exc' = [type |-> "FileNotFoundError", origin |-> "savefig"]
    /\ pc' = "except"
    /\ UNCHANGED <<store, store_at_start, df, monthly, recent_data, t, q, qi_guess,
                   f0, params, ss_res, ss_tot, r_squared, future_reserves,
                   cumulative_to_date, eur, remaining_reserves, t_forecast,
                   forecast_df, error, call, ret>>

\* The one record of decline_parameters.
parameters_row ==
    [well_id |-> "WELL_001", qi |-> params[1].qi, di |-> params[1].Di,
     b_factor |-> params[1].b, r_squared |-> r_squared, eur |-> eur,
     cumulative_production |-> cumulative_to_date,
     remaining_reserves |-> remaining_reserves, analysis_date |-> "now"]

\* params_df.to_sql('decline_parameters', engine, if_exists='replace')
SaveParameters ==
    /\ pc = "save_parameters"
    /\ store' = [store EXCEPT !.decline_parameters = <<parameters_row>>]
    /\ pc' = "save_forecast"
    /\ UNCHANGED <<store_at_start, df, monthly, recent_data, t, q, qi_guess, f0,
                   params, ss_res, ss_tot, r_squared, future_reserves,
                   cumulative_to_date, eur, remaining_reserves, t_forecast,
                   forecast_df, exc, error, call, ret>>

\* forecast_df.to_sql('production_forecast', engine, if_exists='replace')
SaveForecast ==
    /\ pc = "save_forecast"
    /\ store' = [store EXCEPT !.production_forecast = forecast_df]
    /\ pc' = "save_monthly"
    /\ UNCHANGED <<store_at_start, df, monthly, recent_data, t, q, qi_guess, f0,
                   params, ss_res, ss_tot, r_squared, future_reserves,
                   cumulative_to_date, eur, remaining_reserves, t_forecast,
                   forecast_df, exc, error, call, ret>>

\* monthly[[...]].to_sql('monthly_production', engine, if_exists='replace')
SaveMonthly ==
    /\ pc = "save_monthly"
    /\ store' = [store EXCEPT !.monthly_production = monthly]
    /\ pc' = "done"
    /\ UNCHANGED <<store_at_start, df, monthly, recent_data, t, q, qi_guess, f0,
                   params, ss_res, ss_tot, r_squared, future_reserves,
                   cumulative_to_date, eur, remaining_reserves, t_forecast,
                   forecast_df, exc, error, call, ret>>

\* Faulty variant: the handler swallows the exception and carries on with the
\* initial guess as the parameters.
Reraise_recovers ==
    /\ pc = "except"
    /\ params' = <<[qi |-> qi_guess, Di |-> Di_guess, b |-> b_guess]>>
    /\ pc' = IF exc.origin = "curve_fit" THEN "score" ELSE "save_parameters"
    /\ UNCHANGED <<store, store_at_start, df, monthly, recent_data, t, q, qi_guess,
                   f0, ss_res, ss_tot, r_squared, future_reserves,
                   cumulative_to_date, eur, remaining_reserves, t_forecast,
                   forecast_df, exc, error, call, ret>>

\* except Exception as e: print(...); raise
Reraise ==
    /\ pc = "except"
    /\ error' = exc
    /\ pc' = "raised"
    /\ UNCHANGED <<store, store_at_start, df, monthly, recent_data, t, q, qi_guess,
                   f0, params, ss_res, ss_tot, r_squared, future_reserves,
                   cumulative_to_date, eur, remaining_reserves, t_forecast,
                   forecast_df, exc, call, ret>>

Next ==
    \/ Load
    \/ LoadFails
    \/ Aggregate
    \/ Window
    \/ WindowEmpty
    \/ FitReturns
    \/ FitRaises
    \/ Score
    \/ Reserves
    \/ Forecast
    \/ Plot
    \/ PlotFails
    \/ SaveParameters
    \/ SaveForecast
    \/ SaveMonthly
    \/ Reraise

Spec == Init /\ [][Next]_vars

\* ------------------------------------------- direct calls of calculate_eur ---

\* Arguments of the direct calls of calculate_eur that are explored.
EurQi == {20, 100}

EurDi == {0, 5, 10, 100}

EurB == {0, 1, 2, 4}

EurLimit == {economic_limit_default, 2 * economic_limit_default}

InitEur ==
    /\ \E qi \in EurQi, Di \in EurDi, b \in EurB, el \in EurLimit, num \in {"py", "np"} :
          call = [fn |-> "calculate_eur", qi |-> qi, Di |-> Di, b |-> b,
                  economic_limit |-> el, num |-> num]
    /\ ret = NoRet
    /\ InitRun(<<>>, FALSE)

CallCalculateEur ==
    /\ call.fn = "calculate_eur"
    /\ ret' = calculate_eur(call.qi, call.Di, call.b, call.economic_limit, call.num)
    /\ call' = [call EXCEPT !.fn = "returned"]
    /\ UNCHANGED run_vars

NextEur == CallCalculateEur

SpecEur == InitEur /\ [][NextEur]_vars

\* ================================================================ claims ===

\* e ** (-n / 100), times 10000, rounded down.
RECURSIVE ExpNeg(_)
ExpNeg(n) ==
    IF n <= 0 THEN 10000
    ELSE IF n >= 10 THEN (ExpNeg(n - 10) * 9048) \div 10000
    ELSE (ExpNeg(n - 1) * 9900) \div 10000

\* qi * exp(-Di * t): Di and tm in hundredths.
exponential_form(tm, qi, Di) == (qi * ExpNeg((Di * tm) \div 100)) \div 10000

Forecasted == forecast_df /= <<>>

\* C1: hyperbolic_decline special-cases b = 0: the fitter's first evaluation,
\* made at the initial guess b = 0, returns qi * exp(-Di * t) at every time of
\* the window and never evaluates 1/b (no fault, no division by zero).
C1_ExponentialAtZeroB ==
    \A i \in 1..Len(f0) :
        /\ f0[i].fault = "none"
        /\ f0[i].warn = "none"
        /\ f0[i].v = exponential_form(100 * t[i], qi_guess, Di_guess)

\* C2: whatever the length L of the monthly series, the series handed to the
\* fitter is the 20 most recent periods (months_on_production L-20 .. L-1)
\* and its times are 0, 1, ..., 19.
C2_WindowIsLastTwenty ==
    pc = "fit" =>
        /\ Len(recent_data) = 20
        /\ Len(t) = 20
        /\ \A i \in 1..20 :
              /\ recent_data[i].months_on_production = Len(monthly) - 20 + (i - 1)
              /\ t[i] = i - 1

\* C3: with a zero-variance window (two or more equal volumes, total sum of
\* squares 0) the fit fails: r_squared is never nan or infinite, no record
\* with such an r_squared is persisted, and the run does not complete.
C3_ZeroVarianceIsAnError ==
    (Len(q) >= 2 /\ sum_sq_total(q) = 0) =>
        /\ r_squared.kind \in {"unset", "finite"}
        /\ \A i \in 1..Len(store.decline_parameters) :
              store.decline_parameters[i].r_squared.kind = "finite"
        /\ pc /= "done"

\* C4: calculate_eur with Di = 0 and qi above the economic limit signals an
\* UnboundedReserveError: no other fault, no nan, no infinity.
C4_UnboundedReserveSignalled ==
    (call.fn = "returned" /\ call.Di = 0 /\ call.qi > call.economic_limit) =>
        ret.fault = "UnboundedReserveError"

\* C5: once curve_fit has raised, neither decline_parameters nor
\* production_forecast is written or replaced, no parameters are substituted
\* for the missing fit, and the optimizer's exception is the one
\* analyze_production lets out.
C5_FitFailurePersistsNothing ==
    exc.origin = "curve_fit" =>
        /\ store.decline_parameters = store_at_start.decline_parameters
        /\ store.production_forecast = store_at_start.production_forecast
        /\ params = <<>>
        /\ pc \in {"except", "raised"}
        /\ pc = "raised" => error = exc

C5_Witness ==
    /\ pc = "raised"
    /\ error.origin = "curve_fit"
    /\ store_at_start.decline_parameters /= <<>>
    /\ store.decline_parameters = stale_parameters

\* C6: months_on_production is the 0-based chronological rank of each
\* calendar-month group: 0, 1, 2, ... over strictly increasing months, also
\* across a skipped calendar month, one period per distinct month read.
C6_MonthsOnProductionIsRank ==
    pc \notin {"load", "aggregate"} =>
        /\ \A i \in 1..Len(monthly) :
              /\ monthly[i].months_on_production = i - 1
              /\ i > 1 => monthly[i - 1].year_month.ym < monthly[i].year_month.ym
        /\ Len(monthly) = Cardinality({df[i].production_date.ym : i \in 1..Len(df)})

C6_Witness ==
    /\ pc = "window"
    /\ Len(monthly) > MaxShort
    /\ \E i \in 2..Len(monthly) :
          /\ monthly[i].year_month.ym > monthly[i - 1].year_month.ym + 1
          /\ monthly[i].months_on_production = monthly[i - 1].months_on_production + 1
    /\ monthly[Len(monthly)].months_on_production = Len(monthly) - 1

\* C7: the forecast holds exactly forecast_months points, one per month, the
\* i-th dated i months after the last historical month, whatever the
\* predicted volumes; so does the forecast written to the store.
C7_ForecastHasFullHorizon ==
    /\ Forecasted =>
          /\ Len(forecast_df) = forecast_months
          /\ \A i \in 1..Len(forecast_df) :
                forecast_df[i].forecast_date =
                    Date(monthly[Len(monthly)].year_month.ym + i, 1)
    /\ pc \in {"save_monthly", "done"} =>
          /\ Len(store.production_forecast) = forecast_months
          /\ store.production_forecast = forecast_df

C7_Witness ==
    /\ pc = "done"
    /\ Len(store.production_forecast) = forecast_months
    /\ store.production_forecast[1].predicted_oil = 0
    /\ store.production_forecast[forecast_months].forecast_date.ym
           = monthly[Len(monthly)].year_month.ym + forecast_months

\* C8: the persisted record has eur = cumulative_production + future
\* reserves and remaining_reserves = future reserves, cumulative_production
\* being the oil of the whole history read, not of the fitting window alone.
C8_EurIsCumulativePlusFuture ==
    pc \in {"save_forecast", "save_monthly", "done"} =>
        /\ Len(store.decline_parameters) = 1
        /\ LET row == store.decline_parameters[1]
           IN  /\ row.eur = row.cumulative_production + future_reserves
               /\ row.remaining_reserves = future_reserves
               /\ row.cumulative_production =
                      SumRange([i \in 1..Len(df) |-> df[i].oil_volume], 1, Len(df))

C8_Witness ==
    /\ pc = "done"
    /\ Len(monthly) > Len(recent_data)
    /\ store.decline_parameters[1].analysis_date = "now"
    /\ store.decline_parameters[1].remaining_reserves > 0
    /\ store.decline_parameters[1].eur > store.decline_parameters[1].cumulative_production
    /\ store.decline_parameters[1].cumulative_production > SeqSum(q)

\* C9: aggregation of no observation gives an empty monthly series and
\* raises nothing (the run gets past it; what fails next is the window's
\* iloc[0]); a single observation gives one period with index 0.
C9_EmptyAndSingleInput ==
    (pc \notin {"load", "aggregate"} /\ error.origin /= "read_sql") =>
        /\ df = <<>> => (monthly = <<>> /\ error.origin \in {"none", "iloc"})
        /\ Len(df) = 1 =>
              /\ Len(monthly) = 1
              /\ monthly[1].months_on_production = 0
              /\ monthly[1].oil_volume = df[1].oil_volume

C9_Witness ==
    /\ pc = "window"
    /\ df = <<>>
    /\ store.production = <<>>
    /\ monthly = <<>>
    /\ error = NoExc

\* C10: whatever the length L of the monthly series, the forecast's first
\* model time is the number of points fitted and the i-th forecast point has
\* months_on_production L + i (i from 0).
C10_ForecastContinuesHistory ==
    Forecasted =>
        /\ t_forecast[1] = Len(t)
        /\ \A i \in 1..Len(forecast_df) :
              forecast_df[i].months_on_production = Len(monthly) + (i - 1)

=============================================================================
